---- MODULE Spec2Model ----
(***************************************************************************)
(* Model of the hybrid research-paper search engine                        *)
(* (src/search_engine.py, served by src/app_hybrid.py).                    *)
(*                                                                         *)
(* Text is modelled character by character on TLA+ strings, so that the    *)
(* regular expressions, the substring tests and the fuzzy partial ratio    *)
(* are computed the way the code computes them.  Optional values (Python   *)
(* None) are the empty tuple <<>>, a present value v is <<v>>.             *)
(* Scores are fixed-point integers: a hybrid score is kept in millionths,  *)
(* a partial ratio in hundredths of a percent, a cosine in thousandths.    *)
(***************************************************************************)
EXTENDS Integers, Sequences, FiniteSets, TLC

VARIABLES
  phase,       \* where the construction of the engine stands
  papers,      \* self.papers
  docs,        \* self.docs
  vocabulary,  \* the terms self.vectorizer was fitted on
  doc_matrix,  \* self.doc_matrix: row i holds the terms of docs[i]
  fuzz,        \* the imported fuzz.partial_ratio, as the table of its values
               \* on the strings this model passes to it
  out          \* what the last call returned

vars == <<phase, papers, docs, vocabulary, doc_matrix, fuzz, out>>

(***************************************************************************)
(* Characters and strings                                                  *)
(***************************************************************************)
LowerChars == "abcdefghijklmnopqrstuvwxyz"
UpperChars == "ABCDEFGHIJKLMNOPQRSTUVWXYZ"
DigitChars == "0123456789"

Ch(s, i) == SubSeq(s, i, i)

CharSet(s) == {Ch(s, i) : i \in 1..Len(s)}

LowerSet == CharSet(LowerChars)
UpperSet == CharSet(UpperChars)
DigitSet == CharSet(DigitChars)
\* \s of the re module
SpaceSet == {" ", "\t", "\n", "\r"}
\* \w of the re module
WordSet == LowerSet \cup UpperSet \cup DigitSet \cup {"_"}

IndexIn(s, c) == CHOOSE i \in 1..Len(s) : Ch(s, i) = c

SetMin(S) == CHOOSE x \in S : \A y \in S : x <= y
SetMax(S) == CHOOSE x \in S : \A y \in S : x >= y
Min2(a, b) == IF a <= b THEN a ELSE b
Max2(a, b) == IF a >= b THEN a ELSE b

ToLowerCh(c) == IF c \in UpperSet THEN Ch(LowerChars, IndexIn(UpperChars, c)) ELSE c
ToUpperCh(c) == IF c \in LowerSet THEN Ch(UpperChars, IndexIn(LowerChars, c)) ELSE c

\* str.lower()
RECURSIVE Lower(_)
Lower(s) == IF Len(s) = 0 THEN ""
            ELSE ToLowerCh(Ch(s, 1)) \o Lower(SubSeq(s, 2, Len(s)))

\* str.title(): a letter is upper-cased after a non-letter, lower-cased after a letter
RECURSIVE TitleFrom(_, _)
TitleFrom(s, i) ==
  IF i > Len(s) THEN ""
  ELSE LET c == Ch(s, i)
           start == i = 1 \/ Ch(s, i - 1) \notin (LowerSet \cup UpperSet)
       IN (IF start THEN ToUpperCh(c) ELSE ToLowerCh(c)) \o TitleFrom(s, i + 1)

Title(s) == TitleFrom(s, 1)

\* str.strip(chars): cls is the set of characters stripped from both ends
StripSet(s, cls) ==
  LET keep == {i \in 1..Len(s) : Ch(s, i) \notin cls}
  IN IF keep = {} THEN "" ELSE SubSeq(s, SetMin(keep), SetMax(keep))

Strip(s) == StripSet(s, SpaceSet)

\* pat occurs in s at position i
HasAt(s, i, pat) ==
  /\ i >= 1
  /\ i + Len(pat) - 1 <= Len(s)
  /\ SubSeq(s, i, i + Len(pat) - 1) = pat

\* Python's  pat in s
Contains(s, pat) == \E i \in 1..(Len(s) - Len(pat) + 1) : HasAt(s, i, pat)

\* str.replace(old, ""), old non-empty: occurrences removed left to right
RECURSIVE RemoveAll(_, _)
RemoveAll(s, old) ==
  IF Len(s) = 0 THEN ""
  ELSE IF HasAt(s, 1, old) THEN RemoveAll(SubSeq(s, Len(old) + 1, Len(s)), old)
  ELSE Ch(s, 1) \o RemoveAll(SubSeq(s, 2, Len(s)), old)

\* re.sub(r"\s+", " ", s)
RECURSIVE CollapseSpaces(_)
CollapseSpaces(s) ==
  IF Len(s) = 0 THEN ""
  ELSE IF Ch(s, 1) \in SpaceSet
       THEN IF Len(s) >= 2 /\ Ch(s, 2) \in SpaceSet
            THEN CollapseSpaces(SubSeq(s, 2, Len(s)))
            ELSE " " \o CollapseSpaces(SubSeq(s, 2, Len(s)))
       ELSE Ch(s, 1) \o CollapseSpaces(SubSeq(s, 2, Len(s)))

\* " ".join(xs)
RECURSIVE JoinSpace(_)
JoinSpace(xs) ==
  IF Len(xs) = 0 THEN ""
  ELSE IF Len(xs) = 1 THEN xs[1]
  ELSE xs[1] \o " " \o JoinSpace(Tail(xs))

\* the regular expression anchor \b before position i (1..Len(s)+1)
IsWordAt(s, i) == i >= 1 /\ i <= Len(s) /\ Ch(s, i) \in WordSet
WordBoundary(s, i) == IsWordAt(s, i - 1) # IsWordAt(s, i)

\* last position of the longest run of characters of cls that starts at i
\* (i - 1 when the run is empty)
RECURSIVE RunEnd(_, _, _)
RunEnd(s, i, cls) ==
  IF i > Len(s) \/ Ch(s, i) \notin cls THEN i - 1 ELSE RunEnd(s, i + 1, cls)

DigitVal(c) == IndexIn(DigitChars, c) - 1

\* int() of a string of digits
RECURSIVE DigitsToInt(_)
DigitsToInt(s) ==
  IF Len(s) = 0 THEN 0
  ELSE 10 * DigitsToInt(SubSeq(s, 1, Len(s) - 1)) + DigitVal(Ch(s, Len(s)))

AllDigits(s) == Len(s) > 0 /\ \A i \in 1..Len(s) : Ch(s, i) \in DigitSet

\* int(str(v).strip()) inside try/except: <<n>> or <<>> when it raises
IntOrNone(s) ==
  LET t == Strip(s)
      body == IF Len(t) > 0 /\ Ch(t, 1) \in {"+", "-"} THEN SubSeq(t, 2, Len(t)) ELSE t
  IN IF ~AllDigits(body) THEN <<>>
     ELSE IF Len(t) > 0 /\ Ch(t, 1) = "-" THEN <<0 - DigitsToInt(body)>>
     ELSE <<DigitsToInt(body)>>

\* (19|20)\d{2} at position i
YearAt(s, i) ==
  /\ HasAt(s, i, "19") \/ HasAt(s, i, "20")
  /\ i + 3 <= Len(s)
  /\ Ch(s, i + 2) \in DigitSet
  /\ Ch(s, i + 3) \in DigitSet

(***************************************************************************)
(* Query parsing: ResearchSearchEngine.parse_query                         *)
(***************************************************************************)
\* re.search(r"\b<kw>\s+(19|20)\d{2}\b", q) tried at position i:
\* <<int(match.split()[-1])>> or <<>>
ClauseYearAt(q, i, kw) ==
  LET e == RunEnd(q, i + Len(kw), SpaceSet)
      y == e + 1
  IN IF /\ WordBoundary(q, i)
        /\ HasAt(q, i, kw)
        /\ e >= i + Len(kw)
        /\ YearAt(q, y)
        /\ WordBoundary(q, y + 4)
     THEN <<DigitsToInt(SubSeq(q, y, y + 3))>>
     ELSE <<>>

\* the leftmost match
ClauseYear(q, kw) ==
  LET hits == {i \in 1..Len(q) : ClauseYearAt(q, i, kw) # <<>>}
  IN IF hits = {} THEN <<>> ELSE ClauseYearAt(q, SetMin(hits), kw)

\* re.search(r"\b(19|20)\d{2}\b", q)
BareYear(q) ==
  LET hits == {i \in 1..Len(q) :
                 WordBoundary(q, i) /\ YearAt(q, i) /\ WordBoundary(q, i + 4)}
  IN IF hits = {} THEN <<>>
     ELSE <<DigitsToInt(SubSeq(q, SetMin(hits), SetMin(hits) + 3))>>

\* [a-z\s\.]
AuthorClass == LowerSet \cup SpaceSet \cup {"."}

\* re.search(r"\bby\s+(dr\.?|prof\.?)?\s*([a-z][a-z\s\.]+)", q) tried at i:
\* <<group(0)>> or <<>>.  Everything the pattern can consume after "by" lies
\* in [a-z\s\.], and the last group is greedy, so a match runs to the end of
\* the longest run of that class; one exists iff the first character after
\* the spaces is a letter followed by one more character of the class.
AuthorMatchAt(q, i) ==
  LET e == RunEnd(q, i + 2, SpaceSet)
      p == e + 1
  IN IF /\ WordBoundary(q, i)
        /\ HasAt(q, i, "by")
        /\ e >= i + 2
        /\ p + 1 <= Len(q)
        /\ Ch(q, p) \in LowerSet
        /\ Ch(q, p + 1) \in AuthorClass
     THEN <<SubSeq(q, i, RunEnd(q, p, AuthorClass))>>
     ELSE <<>>

\* lines 75-78: the author filter, <<>> when the pattern does not match
ParseAuthor(q) ==
  LET hits == {i \in 1..Len(q) : AuthorMatchAt(q, i) # <<>>}
  IN IF hits = {} THEN <<>>
     ELSE LET g0 == AuthorMatchAt(q, SetMin(hits))[1]
              name == Strip(RemoveAll(g0, "by"))
          IN <<Title(StripSet(CollapseSpaces(name), {".", " "}))>>

\* [a-z0-9&\-\.\s]
JournalClass == LowerSet \cup DigitSet \cup SpaceSet \cup {"&", "-", "."}

\* re.search(r"\b(in|published in)\s+([a-z0-9&\-\.\s]+)", q) tried at i:
\* <<group(2)>> or <<>>
JournalMatchAt(q, i) ==
  LET k == IF HasAt(q, i, "in") THEN 2 ELSE 12
      e == RunEnd(q, i + k, SpaceSet)
      p == e + 1
  IN IF ~(/\ WordBoundary(q, i)
          /\ HasAt(q, i, "in") \/ HasAt(q, i, "published in")
          /\ e >= i + k)
     THEN <<>>
     ELSE IF p <= Len(q) /\ Ch(q, p) \in JournalClass
          THEN <<SubSeq(q, p, RunEnd(q, p, JournalClass))>>
          \* \s+ gives one whitespace character back to the group
          ELSE IF e > i + k THEN <<Ch(q, e)>>
          ELSE <<>>

\* re.split(r"\b(after|before|in\s+(19|20)\d{2})\b", j)[0]
StopAt(j, i) ==
  /\ WordBoundary(j, i)
  /\ \/ HasAt(j, i, "after") /\ WordBoundary(j, i + 5)
     \/ HasAt(j, i, "before") /\ WordBoundary(j, i + 6)
     \/ LET e == RunEnd(j, i + 2, SpaceSet)
        IN /\ HasAt(j, i, "in")
           /\ e >= i + 2
           /\ YearAt(j, e + 1)
           /\ WordBoundary(j, e + 5)

SplitHead(j) ==
  LET hits == {i \in 1..Len(j) : StopAt(j, i)}
  IN IF hits = {} THEN j ELSE SubSeq(j, 1, SetMin(hits) - 1)

\* lines 81-86: the journal filter
ParseJournal(q) ==
  LET hits == {i \in 1..Len(q) : JournalMatchAt(q, i) # <<>>}
  IN IF hits = {} THEN <<>>
     ELSE <<Strip(SplitHead(Strip(JournalMatchAt(q, SetMin(hits))[1])))>>

\* lines 89-96
topic_seed ==
  << "ai", "artificial intelligence", "machine learning", "ml",
     "deep learning", "dl", "nlp", "natural language processing",
     "computer vision", "cv", "blockchain", "cybersecurity",
     "data mining", "cloud", "cloud computing", "iot",
     "healthcare", "bioinformatics", "security", "privacy",
     "recommendation", "graph", "optimization", "edge computing" >>

\* lines 97-100
RECURSIVE SeedsFound(_, _)
SeedsFound(q, i) ==
  IF i > Len(topic_seed) THEN <<>>
  ELSE (IF Contains(q, topic_seed[i]) THEN <<topic_seed[i]>> ELSE <<>>)
       \o SeedsFound(q, i + 1)

\* re.findall(r"\"([^\"]+)\"", query), scanning from position i
RECURSIVE QuotedFrom(_, _)
QuotedFrom(s, i) ==
  LET opens == {j \in i..Len(s) : Ch(s, j) = "\""}
  IN IF opens = {} THEN <<>>
     ELSE LET j == SetMin(opens)
              closes == {k \in (j + 1)..Len(s) : Ch(s, k) = "\""}
          IN IF closes = {} THEN <<>>
             ELSE LET k == SetMin(closes)
                  IN IF k = j + 1 THEN QuotedFrom(s, j + 1)
                     ELSE <<SubSeq(s, j + 1, k - 1)>> \o QuotedFrom(s, k + 1)

\* list(dict.fromkeys(xs)): first occurrences, order kept
RECURSIVE Dedup(_)
Dedup(xs) ==
  IF Len(xs) = 0 THEN <<>>
  ELSE LET front == Dedup(SubSeq(xs, 1, Len(xs) - 1))
           x == xs[Len(xs)]
       IN IF \E i \in 1..Len(front) : front[i] = x THEN front ELSE Append(front, x)

ParseTopics(query) == Dedup(SeedsFound(Lower(query), 1) \o QuotedFrom(query, 1))

\* a parser in which the bare year is kept beside a range
ParseExactYearAlways(q) == BareYear(q)

\* lines 59-72: exact_year only when no range was found
ParseExactYear(q) ==
  IF ClauseYear(q, "after") = <<>> /\ ClauseYear(q, "before") = <<>>
  THEN BareYear(q) ELSE <<>>

parse_query(query) ==
  LET q == Lower(query)
  IN [ author      |-> ParseAuthor(q),
       journal     |-> ParseJournal(q),
       year_after  |-> ClauseYear(q, "after"),
       year_before |-> ClauseYear(q, "before"),
       exact_year  |-> ParseExactYear(q),
       topics      |-> ParseTopics(query) ]

(***************************************************************************)
(* The inputs of the model                                                 *)
(***************************************************************************)
MaxPapers == 3
MaxTopK == 2
MaxNegTopK == 1
\* search_engine.py line 184 and app_hybrid.py line 12
DefaultTopK == 20

Paper(first_author, co_authors, title, journal, year, keywords) ==
  [first_author |-> first_author, co_authors |-> co_authors, title |-> title,
   journal |-> journal, year |-> year, keywords |-> keywords]

\* the records research.json may hold: the three of the specification's
\* example, one without a year whose journal names a topic, one with
\* every field empty
Pool ==
  << Paper("Alice Rao", "", "", "IEEE Access", "2019", <<"iot">>),
     Paper("Bob Shah", "", "", "Springer", "2022", <<"blockchain">>),
     Paper("Alice Rao", "", "", "Nature", "2021", <<"ai">>),
     Paper("Dr. Mehta", "Bob Shah", "Graph Methods", "AI Review", "", <<"optimization">>),
     Paper("", "", "", "", "", <<>>) >>

\* the sequences of at most n elements of S that hold none of them twice
RECURSIVE SeqsUpTo(_, _)
SeqsUpTo(S, n) ==
  IF n = 0 THEN {<<>>}
  ELSE LET shorter == SeqsUpTo(S, n - 1)
       IN shorter \cup {Append(cx[1], cx[2]) :
                          cx \in {d \in shorter \X S :
                                    \A i \in 1..Len(d[1]) : d[1][i] # d[2]}}

\* the sequences that hold one element of S between 2 and n times
Repeats(S, n) == {[i \in 1..k |-> x] : x \in S, k \in 2..n}

\* research.json: any records of the pool in any order, each at most once,
\* or one record several times (records of equal score)
Corpora ==
  LET records == {Pool[i] : i \in 1..Len(Pool)}
  IN SeqsUpTo(records, MaxPapers) \cup Repeats(records, MaxPapers)

Queries ==
  { "papers by Alice Rao after 2019",
    "blockchain papers in Springer",
    "iot before 2021 after 2018",
    "iot after 2018 after 2021",
    "ai in 2021",
    "papers after 2030",
    "quantum",
    "work by Dr. Mehta in Nature 2021",
    "iot 2019 papers before 2021",
    "\"Graph Methods\" by Bob Shah",
    "graph optimization \"Graph Methods\"",
    "Alice Rao" }

TopKs == ((0 - MaxNegTopK)..MaxTopK) \cup {DefaultTopK}

\* the q and k parameters of a request: absent, or a string
QArgs == {<<>>, <<"  ">>, <<" ai in 2021 ">>, <<"papers by Alice Rao after 2019">>,
          <<"Alice Rao">>}
KArgs == {<<>>, <<"1">>, <<"0">>, <<"-1">>, <<" 2 ">>, <<"x">>}

(***************************************************************************)
(* rapidfuzz.fuzz.partial_ratio (library), in hundredths of a percent      *)
(***************************************************************************)
\* the longest-common-subsequence table, row by row.  prev holds the row of
\* the window's previous character, columns 0..Len(s1) at indexes
\* 1..Len(s1)+1; acc holds columns 0..j-1 of the row of character c
RECURSIVE LcsRowFrom(_, _, _, _, _)
LcsRowFrom(s1, c, prev, j, acc) ==
  IF j > Len(s1) THEN acc
  ELSE LET v == IF Ch(s1, j) = c THEN prev[j] + 1 ELSE Max2(prev[j + 1], acc[j])
       IN LcsRowFrom(s1, c, prev, j + 1, Append(acc, v))

LcsNextRow(s1, c, prev) == LcsRowFrom(s1, c, prev, 1, <<0>>)

RECURSIVE LcsRows(_, _, _, _)
LcsRows(s1, s2, i, prev) ==
  IF i > Len(s2) THEN prev[Len(s1) + 1]
  ELSE LET row == LcsNextRow(s1, Ch(s2, i), prev)
       IN IF Len(row) > 0 THEN LcsRows(s1, s2, i + 1, row) ELSE 0

LcsLen(s1, s2) == LcsRows(s1, s2, 1, [j \in 1..(Len(s1) + 1) |-> 0])

\* fuzz.ratio: the normalized Indel similarity, 100 * 2 * lcs / (len1 + len2)
FuzzRatio(s1, s2) ==
  IF Len(s1) + Len(s2) = 0 THEN 10000
  ELSE (20000 * LcsLen(s1, s2)) \div (Len(s1) + Len(s2))

\* the windows of the longer string the shorter one is aligned with: its
\* prefixes shorter than the needle, every substring of the needle's length,
\* and its suffixes shorter than the needle
Windows(m, long) ==
  LET n == Len(long)
  IN {SubSeq(long, 1, i) : i \in 1..(m - 1)}
     \cup {SubSeq(long, i, i + m - 1) : i \in 1..(n - m + 1)}
     \cup {SubSeq(long, i, n) : i \in (n - m + 2)..n}

\* the best alignment of needle inside hay
BestWindow(needle, hay) ==
  SetMax({FuzzRatio(needle, w) : w \in Windows(Len(needle), hay)})

\* strings of equal length are aligned both ways
AlignedRatio(a, b) ==
  IF Len(a) = 0 /\ Len(b) = 0 THEN 10000
  ELSE IF Len(a) = 0 \/ Len(b) = 0 THEN 0
  ELSE IF Len(a) < Len(b) THEN BestWindow(a, b)
  ELSE IF Len(b) < Len(a) THEN BestWindow(b, a)
  ELSE Max2(BestWindow(a, b), BestWindow(b, a))

\* the author and journal filters of the model's queries, and the author
\* and journal fields of its records, lower-cased
FilterTexts ==
  LET asked == Queries \cup {Strip(qarg[1]) : qarg \in QArgs \ {<<>>}}
  IN UNION {{Lower(v[1]) : v \in {parse_query(q).author, parse_query(q).journal} \ {<<>>}} :
              q \in asked}

FieldTexts ==
  UNION {{Lower(Pool[i].first_author), Lower(Pool[i].journal)} : i \in 1..Len(Pool)}

\* fuzz.partial_ratio(a, b): read off the table of the imported function,
\* computed where the table does not hold the pair
partial_ratio(a, b) ==
  IF <<a, b>> \in DOMAIN fuzz THEN fuzz[<<a, b>>] ELSE AlignedRatio(a, b)

(***************************************************************************)
(* The lexical index: TfidfVectorizer and cosine_similarity (library)      *)
(***************************************************************************)
\* token_pattern (?u)\b\w\w+\b on the lower-cased text: the runs of two or
\* more word characters, from position i on
RECURSIVE TokensFrom(_, _)
TokensFrom(s, i) ==
  IF i > Len(s) THEN <<>>
  ELSE IF ~IsWordAt(s, i) THEN TokensFrom(s, i + 1)
  ELSE LET e == RunEnd(s, i, WordSet)
       IN (IF e > i THEN <<SubSeq(s, i, e)>> ELSE <<>>) \o TokensFrom(s, e + 1)

\* stop_words="english": the words of the library's list that matter for
\* the texts of this model
StopWords ==
  { "a", "about", "after", "all", "also", "an", "and", "any", "are", "as",
    "at", "be", "before", "between", "both", "but", "by", "can", "for",
    "find", "from", "has", "have", "how", "in", "into", "is", "it", "its",
    "more", "most", "not", "of", "on", "or", "since", "show", "than",
    "that", "the", "their", "these", "this", "those", "to", "until", "was",
    "were", "what", "when", "where", "which", "who", "with" }

\* ngram_range=(1, 2): the tokens left after the stop words, then each
\* pair of neighbours joined by a space
Terms(text) ==
  LET toks == SelectSeq(TokensFrom(Lower(text), 1), LAMBDA t : t \notin StopWords)
  IN toks \o [i \in 1..(Len(toks) - 1) |-> toks[i] \o " " \o toks[i + 1]]

TermSet(row) == {row[i] : i \in 1..Len(row)}

\* the dot product of two term-count vectors
Dot(qrow, drow) ==
  Cardinality({ij \in (1..Len(qrow)) \X (1..Len(drow)) : qrow[ij[1]] = drow[ij[2]]})

\* floor of the square root, by bisection: lo*lo <= n < hi*hi
RECURSIVE ISqrtBetween(_, _, _)
ISqrtBetween(n, lo, hi) ==
  IF hi - lo <= 1 THEN lo
  ELSE LET mid == (lo + hi) \div 2
       IN IF mid * mid <= n THEN ISqrtBetween(n, mid, hi)
          ELSE ISqrtBetween(n, lo, mid)

\* cosine_similarity(vectorizer.transform([q_aug]), doc_matrix)[idx] in
\* thousandths.  The query is counted over the fitted vocabulary only.  The
\* inverse document frequency, a positive factor per term, is taken as 1:
\* the cosine keeps its range and is 0 exactly when no term is shared.
CosineSim(qterms, drow, vocab) ==
  LET qrow == SelectSeq(qterms, LAMBDA t : t \in vocab)
      d == Dot(qrow, drow)
      nq == Dot(qrow, qrow)
      nd == Dot(drow, drow)
  IN IF nq = 0 \/ nd = 0 \/ d = 0 THEN 0
     ELSE ISqrtBetween((1000000 * d * d) \div (nq * nd), 0, 1001)

\* lines 27-34: the searchable text of a paper
DocText(p) ==
  LET parts == << p.title, p.journal, p.first_author, p.co_authors,
                  JoinSpace(p.keywords) >>
      kept == SelectSeq(parts, LAMBDA x : Len(Strip(x)) > 0)
      RECURSIVE JoinBar(_)
      JoinBar(xs) == IF Len(xs) = 0 THEN ""
                     ELSE IF Len(xs) = 1 THEN Strip(xs[1])
                     ELSE Strip(xs[1]) \o " | " \o JoinBar(Tail(xs))
  IN JoinBar(kept)

(***************************************************************************)
(* Filtering and scoring                                                   *)
(***************************************************************************)
\* Python truthiness of an optional string
Truthy(opt) == opt # <<>> /\ Len(opt[1]) > 0

\* a topic text that also holds the journal and the author
TopicTextAllFields(p) ==
  Lower(p.title) \o " " \o Lower(p.journal) \o " " \o Lower(p.first_author) \o " "
  \o JoinSpace([i \in 1..Len(p.keywords) |-> Lower(p.keywords[i])])

\* lines 130-132 and 172-174: title + " " + " ".join(lower-cased keywords)
TopicText(p) ==
  Lower(p.title) \o " " \o JoinSpace([i \in 1..Len(p.keywords) |-> Lower(p.keywords[i])])

\* lines 175: the topics found in the paper
TopicHits(p, f) ==
  Cardinality({i \in 1..Len(f.topics) : Contains(TopicText(p), Lower(f.topics[i]))})

\* year bounds that let the bound itself through
YearPassesInclusive(p, f) ==
  LET py_int == IntOrNone(p.year)
  IN /\ ~(f.exact_year # <<>> /\ py_int # <<>> /\ py_int[1] # f.exact_year[1])
     /\ ~(f.year_after # <<>> /\ py_int # <<>> /\ py_int[1] < f.year_after[1])
     /\ ~(f.year_before # <<>> /\ py_int # <<>> /\ py_int[1] > f.year_before[1])

\* a year test that rejects a year it cannot read when an exact year is asked
YearPassesKnownOnly(p, f) ==
  LET py_int == IntOrNone(p.year)
  IN /\ ~(f.exact_year # <<>> /\ (py_int = <<>> \/ py_int[1] # f.exact_year[1]))
     /\ ~(f.year_after # <<>> /\ py_int # <<>> /\ py_int[1] <= f.year_after[1])
     /\ ~(f.year_before # <<>> /\ py_int # <<>> /\ py_int[1] >= f.year_before[1])

\* lines 110-126
YearPasses(p, f) ==
  LET py_int == IntOrNone(p.year)
  IN /\ ~(f.exact_year # <<>> /\ py_int # <<>> /\ py_int[1] # f.exact_year[1])
     /\ ~(f.year_after # <<>> /\ py_int # <<>> /\ py_int[1] <= f.year_after[1])
     /\ ~(f.year_before # <<>> /\ py_int # <<>> /\ py_int[1] >= f.year_before[1])

\* lines 129-134
TopicPasses(p, f) == Len(f.topics) = 0 \/ TopicHits(p, f) > 0

\* lines 108-136
passes_filters(p, f) == YearPasses(p, f) /\ TopicPasses(p, f)

\* lines 159-162, in millionths
AuthorTerm(p, f) ==
  IF Truthy(f.author)
  THEN 20 * partial_ratio(Lower(f.author[1]), Lower(p.first_author))
  ELSE 0

\* lines 165-168, in millionths
JournalTerm(p, f) ==
  IF Truthy(f.journal)
  THEN 15 * partial_ratio(Lower(f.journal[1]), Lower(p.journal))
  ELSE 0

\* a topic bonus without its cap
TopicBonusUncapped(p, f) ==
  IF Len(f.topics) > 0 /\ TopicHits(p, f) > 0
  THEN 20000 * TopicHits(p, f)
  ELSE 0

\* lines 171-178, in millionths
TopicBonus(p, f) ==
  IF Len(f.topics) > 0 /\ TopicHits(p, f) > 0
  THEN Min2(50000, 20000 * TopicHits(p, f))
  ELSE 0

\* lines 139-181, in millionths; tfidf_sim in thousandths
hybrid_score(p, f, tfidf_sim) ==
  LET score == 600 * tfidf_sim + AuthorTerm(p, f) + JournalTerm(p, f) + TopicBonus(p, f)
  IN Max2(0, Min2(score, 1000000))

(***************************************************************************)
(* ResearchSearchEngine.search                                             *)
(***************************************************************************)
\* lines 189-195
QueryAug(query, f) ==
  JoinSpace(<<query>>
            \o (IF Truthy(f.author) THEN <<f.author[1]>> ELSE <<>>)
            \o (IF Truthy(f.journal) THEN <<f.journal[1]>> ELSE <<>>)
            \o f.topics)

\* a lookup that reads the row of the next record (the row a paper gets
\* when the index is one document short in front of it)
SimRowOfNext(idx) == doc_matrix[(idx % Len(doc_matrix)) + 1]

\* line 204: sims[idx], the similarity of the query to row idx of doc_matrix
SimRow(idx) == doc_matrix[idx]

\* line 205: the score of papers[idx]
ScoreOf(idx, query, f) ==
  hybrid_score(papers[idx], f,
               CosineSim(Terms(QueryAug(query, f)), SimRow(idx), vocabulary))

\* a filter pass that lets every record through
AdmitsAll(p, f) == TRUE

\* line 203
Admits(p, f) == passes_filters(p, f)

\* a test that keeps the candidates of score 0 as well
KeepsAll(hybrid) == hybrid >= 0

\* line 206
Keeps(hybrid) == hybrid > 0

\* lines 201-207: the candidates in corpus order, from paper idx on; each
\* entry carries the paper, its score and (for the claims) its index
RECURSIVE ScoredFrom(_, _, _)
ScoredFrom(idx, query, f) ==
  IF idx > Len(papers) THEN <<>>
  ELSE LET hybrid == IF Admits(papers[idx], f) THEN ScoreOf(idx, query, f) ELSE 0
       IN (IF Admits(papers[idx], f) /\ Keeps(hybrid)
           THEN <<[idx |-> idx, paper |-> papers[idx], hybrid |-> hybrid]>>
           ELSE <<>>)
          \o ScoredFrom(idx + 1, query, f)

\* an insertion that puts x in front of the entries of equal score
InsertDescUnstable(sorted, x) ==
  LET k == Cardinality({i \in 1..Len(sorted) : sorted[i].hybrid > x.hybrid})
  IN SubSeq(sorted, 1, k) \o <<x>> \o SubSeq(sorted, k + 1, Len(sorted))

\* where x goes in a list sorted by descending score: behind every entry
\* that does not score less (list.sort is stable, also with reverse=True)
InsertDesc(sorted, x) ==
  LET k == Cardinality({i \in 1..Len(sorted) : sorted[i].hybrid >= x.hybrid})
  IN SubSeq(sorted, 1, k) \o <<x>> \o SubSeq(sorted, k + 1, Len(sorted))

\* line 210: scored.sort(key=lambda x: x[0], reverse=True)
RECURSIVE SortDesc(_)
SortDesc(xs) ==
  IF Len(xs) = 0 THEN <<>>
  ELSE InsertDesc(SortDesc(SubSeq(xs, 1, Len(xs) - 1)), xs[Len(xs)])

\* line 211: xs[:k]
SliceTo(xs, k) ==
  IF k >= 0 THEN SubSeq(xs, 1, Min2(k, Len(xs)))
  ELSE SubSeq(xs, 1, Max2(Len(xs) + k, 0))

\* line 217: round(float(s), 4), from millionths to ten-thousandths
Round4(s) ==
  LET q == s \div 100
      r == s % 100
  IN IF r > 50 \/ (r = 50 /\ q % 2 = 1) THEN q + 1 ELSE q

\* lines 214-218: a copy of the paper with its _score
Annotate(e) == [idx |-> e.idx, paper |-> e.paper, hybrid |-> e.hybrid,
                score |-> Round4(e.hybrid)]

\* lines 184-225
search(query, top_k) ==
  LET filters == parse_query(query)
      top == SliceTo(SortDesc(ScoredFrom(1, query, filters)), top_k)
      results == [i \in 1..Len(top) |-> Annotate(top[i])]
  IN [query |-> query, filters |-> filters, count |-> Len(results),
      results |-> results]

(***************************************************************************)
(* The state machine                                                       *)
(***************************************************************************)
NoOut == [kind |-> "none", via |-> "none", top_k |-> 0, res |-> <<>>]

Init ==
  /\ phase = "start"
  /\ papers = <<>>
  /\ docs = <<>>
  /\ vocabulary = {}
  /\ doc_matrix = <<>>
  /\ fuzz = [ab \in FilterTexts \X FieldTexts |-> AlignedRatio(ab[1], ab[2])]
  /\ out = NoOut

\* __init__, lines 21-22: json.load
Load ==
  /\ phase = "start"
  /\ \E corpus \in Corpora : papers' = corpus
  /\ phase' = "docs"
  /\ UNCHANGED <<docs, vocabulary, doc_matrix, fuzz, out>>

\* __init__, lines 26-34: one turn of the loop over self.papers
BuildDoc ==
  /\ phase = "docs"
  /\ Len(docs) < Len(papers)
  /\ docs' = Append(docs, DocText(papers[Len(docs) + 1]))
  /\ UNCHANGED <<phase, papers, vocabulary, doc_matrix, fuzz, out>>

\* __init__, lines 37-44: fit_transform raises ValueError (empty
\* vocabulary) when no document holds a term, and no engine exists then
FitIndex ==
  /\ phase = "docs"
  /\ Len(docs) = Len(papers)
  /\ LET rows == [i \in 1..Len(docs) |-> Terms(docs[i])]
         vocab == UNION {TermSet(rows[i]) : i \in 1..Len(rows)}
     IN IF vocab = {}
        THEN /\ phase' = "failed"
             /\ UNCHANGED <<vocabulary, doc_matrix>>
        ELSE /\ phase' = "ready"
             /\ vocabulary' = vocab
             /\ doc_matrix' = rows
  /\ UNCHANGED <<papers, docs, fuzz, out>>

\* a server that takes calls before the engine is loaded and built
EngineReadyFromStart == phase \in {"start", "ready"}

\* app_hybrid.py lines 5-9: the engine is bound, and the route defined,
\* only once __init__ has returned; when __init__ raises there is neither
EngineReady == phase = "ready"

\* a loop that writes _score into the stored record itself
StoredAnnotated(p, s) == ("_score" :> s) @@ p

\* lines 215-216: item = dict(p) takes a copy and _score goes into the
\* copy; the record of self.papers stays as it is
Stored(p, s) == p

\* self.papers once search has returned res (<<>> when it was not called)
PapersAfter(res) ==
  IF res = <<>> THEN papers
  ELSE [i \in 1..Len(papers) |->
          LET at == {j \in 1..Len(res[1].results) : res[1].results[j].idx = i}
          IN IF at = {} THEN papers[i]
             ELSE Stored(papers[i], res[1].results[CHOOSE j \in at : TRUE].score)]

\* a direct call of engine.search(query, top_k); calls are served one at a
\* time, each result is handed over before the next call starts
Search ==
  /\ EngineReady
  /\ out.kind = "none"
  /\ \E query \in Queries, top_k \in TopKs :
       \E r \in {search(query, top_k)} :
         /\ out' = [kind |-> "result", via |-> "direct", top_k |-> top_k,
                    res |-> <<r>>]
         /\ papers' = PapersAfter(<<r>>)
  /\ UNCHANGED <<phase, docs, vocabulary, doc_matrix, fuzz>>

\* app_hybrid.py lines 9-17: GET /search; the module builds the engine
\* before it serves.  int() of a bad k raises (a 500 response) before q is
\* looked at.
HttpSearch ==
  /\ EngineReady
  /\ out.kind = "none"
  /\ \E qarg \in QArgs, karg \in KArgs :
       LET q == Strip(IF qarg = <<>> THEN "" ELSE qarg[1])
           k == IF karg = <<>> THEN <<DefaultTopK>> ELSE IntOrNone(karg[1])
       IN \E o \in {IF k = <<>>
                     THEN [kind |-> "http500", via |-> "http", top_k |-> 0, res |-> <<>>]
                     ELSE IF Len(q) = 0
                     THEN [kind |-> "http400", via |-> "http", top_k |-> k[1], res |-> <<>>]
                     ELSE [kind |-> "result", via |-> "http", top_k |-> k[1],
                           res |-> <<search(q, k[1])>>]} :
            /\ out' = o
            /\ papers' = PapersAfter(o.res)
  /\ UNCHANGED <<phase, docs, vocabulary, doc_matrix, fuzz>>

\* the caller takes the result (line 225), the response is sent (line 17)
Deliver ==
  /\ out.kind # "none"
  /\ out' = NoOut
  /\ UNCHANGED <<phase, papers, docs, vocabulary, doc_matrix, fuzz>>

Next ==
  \/ Load
  \/ BuildDoc
  \/ FitIndex
  \/ Search
  \/ HttpSearch
  \/ Deliver

Spec == Init /\ [][Next]_vars

(***************************************************************************)
(* Properties                                                              *)
(***************************************************************************)
IsResult == out.kind = "result"
Res == out.res[1]

\* the example corpus of the specification, section 8
ExampleCorpus == <<Pool[1], Pool[2], Pool[3]>>
ExampleQuery == "papers by Alice Rao after 2019"

YearKnown(p) == IntOrNone(p.year) # <<>>
YearOf(p) == IntOrNone(p.year)[1]

\* the papers search keeps before it sorts and cuts: admitted by the parsed
\* filters and scored above 0
Qualifies(idx, query, f) ==
  /\ passes_filters(papers[idx], f)
  /\ ScoreOf(idx, query, f) > 0

Qualifying(query, f) == {idx \in 1..Len(papers) : Qualifies(idx, query, f)}

\* the papers of the last call that are not among its results
LeftOut == {idx \in 1..Len(papers) :
              \A i \in 1..Len(Res.results) : Res.results[i].idx # idx}

\* the 4-digit 19xx/20xx words of a lower-cased query
YearWords(q) ==
  {t \in TermSet(TokensFrom(q, 1)) : Len(t) = 4 /\ YearAt(t, 1)}

\* the lower-cased query q holds the clause "<kw> <year>" as words
HasClause(q, kw, year) ==
  Contains(" " \o q \o " ", " " \o kw \o " " \o year \o " ")

\* the year of the first clause "<kw> <year>" of q, <<>> without one
FirstClause(q, kw) ==
  LET pq == " " \o q \o " "
      hits == {i \in 1..Len(pq) :
                 \E y \in YearWords(q) : HasAt(pq, i, " " \o kw \o " " \o y \o " ")}
  IN IF hits = {} THEN <<>>
     ELSE <<DigitsToInt(SubSeq(pq, SetMin(hits) + Len(kw) + 2, SetMin(hits) + Len(kw) + 5))>>

HasRange(q) ==
  \E y \in YearWords(q) : HasClause(q, "after", y) \/ HasClause(q, "before", y)

\* the first 4-digit 19xx/20xx word of q, read off its words
FirstYearWord(q) ==
  LET toks == TokensFrom(q, 1)
      at == {i \in 1..Len(toks) : Len(toks[i]) = 4 /\ YearAt(toks[i], 1)}
  IN IF at = {} THEN <<>> ELSE <<DigitsToInt(toks[SetMin(at)])>>

\* title and keywords of a paper, lower-cased
TitleAndKeywords(p) ==
  Lower(p.title) \o " " \o JoinSpace([i \in 1..Len(p.keywords) |-> Lower(p.keywords[i])])

\* title, journal, author and keywords of a paper, lower-cased
AllFields(p) ==
  Lower(p.title) \o " " \o Lower(p.journal) \o " " \o Lower(p.first_author) \o " "
  \o JoinSpace([i \in 1..Len(p.keywords) |-> Lower(p.keywords[i])])

SomeTopicIn(text, f) ==
  \E i \in 1..Len(f.topics) : Contains(text, Lower(f.topics[i]))

\* C1 as stated: with top_k >= 1, search returns an empty list only when
\* the corpus is empty (it would fall back to the whole corpus when the
\* filters reject every record).
C1_EmptyOnlyForEmptyCorpus ==
  (IsResult /\ out.top_k >= 1 /\ Len(papers) > 0) => Res.count > 0

\* C1 as amended: with top_k >= 1, search returns the first top_k of the
\* records that pass the parsed filters and score above 0, and nothing
\* else; there is no fallback, so the list is empty whenever no record
\* qualifies, also over a corpus that is not empty.
C1_NoFallback ==
  (IsResult /\ out.top_k >= 1) =>
    \A f \in {parse_query(Res.query)} :
      /\ Res.count = Min2(out.top_k, Cardinality(Qualifying(Res.query, f)))
      /\ \A i \in 1..Len(Res.results) : passes_filters(Res.results[i].paper, f)

C1_Witness ==
  /\ IsResult
  /\ out.top_k >= 1
  /\ Len(papers) > 0
  /\ \A idx \in 1..Len(papers) : ~passes_filters(papers[idx], Res.filters)
  /\ Res.count = 0

\* C2: on the example corpus the example query returns exactly one result,
\* record 3.
C2_OnlyRecordThree ==
  (IsResult /\ papers = ExampleCorpus /\ Res.query = ExampleQuery
     /\ out.top_k = DefaultTopK) =>
    (Len(Res.results) = 1 /\ Res.results[1].idx = 3)

\* C3 as stated: for a query with a clause "after A" every result whose
\* year reads as an integer has year > A, and with a clause "before B" as
\* well A < year < B.
C3_YearBoundsEveryClause ==
  IsResult =>
    LET q == Lower(Res.query)
    IN \A i \in 1..Len(Res.results) :
         YearKnown(Res.results[i].paper) =>
           \A a \in YearWords(q) :
             HasClause(q, "after", a) =>
               /\ YearOf(Res.results[i].paper) > DigitsToInt(a)
               /\ \A b \in YearWords(q) :
                    HasClause(q, "before", b) =>
                      YearOf(Res.results[i].paper) < DigitsToInt(b)

\* C3 as amended: for a query whose first "after" clause is "after A"
\* every result whose year reads as an integer has year > A, and when its
\* first "before" clause is "before B" as well A < year < B; a second
\* clause of the same kind is not enforced.
C3_YearBoundsFirstClause ==
  IsResult =>
    LET q == Lower(Res.query)
        a == FirstClause(q, "after")
        b == FirstClause(q, "before")
    IN \A i \in 1..Len(Res.results) :
         (YearKnown(Res.results[i].paper) /\ a # <<>>) =>
           /\ YearOf(Res.results[i].paper) > a[1]
           /\ b # <<>> => YearOf(Res.results[i].paper) < b[1]

C3_Witness ==
  /\ IsResult
  /\ FirstClause(Lower(Res.query), "after") = <<2018>>
  /\ FirstClause(Lower(Res.query), "before") = <<2021>>
  /\ \E i \in 1..Len(Res.results) : YearKnown(Res.results[i].paper)
  /\ \E idx \in 1..Len(papers) : YearKnown(papers[idx]) /\ YearOf(papers[idx]) >= 2021

\* C4 as stated: a record whose year does not read as an integer passes
\* when no year constraint is set, and fails when an exact year is set.
C4_UnknownYearFailsExactYear ==
  IsResult =>
    \A idx \in 1..Len(papers) :
      ~YearKnown(papers[idx]) =>
        /\ (Res.filters.exact_year = <<>> /\ Res.filters.year_after = <<>>
              /\ Res.filters.year_before = <<>>
              /\ (Len(Res.filters.topics) = 0
                    \/ SomeTopicIn(TitleAndKeywords(papers[idx]), Res.filters)))
             => passes_filters(papers[idx], Res.filters)
        /\ Res.filters.exact_year # <<>> => ~passes_filters(papers[idx], Res.filters)

\* C4 as amended: a record whose year does not read as an integer is never
\* rejected for its year: with or without an exact year or a range in the
\* filter set it passes exactly when the topic constraint, if there is one,
\* is met.
C4_UnknownYearIgnored ==
  IsResult =>
    \A idx \in 1..Len(papers) :
      ~YearKnown(papers[idx]) =>
        (passes_filters(papers[idx], Res.filters)
           <=> (Len(Res.filters.topics) = 0
                  \/ SomeTopicIn(TitleAndKeywords(papers[idx]), Res.filters)))

C4_Witness ==
  /\ IsResult
  /\ Res.filters.exact_year # <<>>
  /\ \E i \in 1..Len(Res.results) : ~YearKnown(Res.results[i].paper)

\* C5: with an author (journal) filter, every result's author (journal)
\* has a partial ratio of at least 70 with the filter value.
C5_FuzzyThreshold ==
  IsResult =>
    \A i \in 1..Len(Res.results) :
      /\ Truthy(Res.filters.author) =>
           partial_ratio(Lower(Res.filters.author[1]),
                         Lower(Res.results[i].paper.first_author)) >= 7000
      /\ Truthy(Res.filters.journal) =>
           partial_ratio(Lower(Res.filters.journal[1]),
                         Lower(Res.results[i].paper.journal)) >= 7000

\* C6: a range wins over a bare year: with an "after YYYY" or "before YYYY"
\* clause in the query exact_year is absent, without one it is the first
\* 4-digit 19xx/20xx word of the query (absent when there is none).
C6_RangeWins ==
  IsResult =>
    LET q == Lower(Res.query)
    IN /\ HasRange(q) => Res.filters.exact_year = <<>>
       /\ ~HasRange(q) => Res.filters.exact_year = FirstYearWord(q)

C6_Witness ==
  /\ IsResult
  /\ HasClause(Lower(Res.query), "before", "2021")
  /\ "2019" \in YearWords(Lower(Res.query))
  /\ Res.filters.exact_year = <<>>
  /\ Res.filters.year_before = <<2021>>

\* C7: the author filter holds the name only: none of the keywords in,
\* journal, before, after, since, year, nor anything behind them.
C7_AuthorStopsAtKeyword ==
  (IsResult /\ Res.filters.author # <<>>) =>
    TermSet(TokensFrom(Lower(Res.filters.author[1]), 1))
      \cap {"in", "journal", "before", "after", "since", "year"} = {}

\* C8: results are in non-increasing order of score, results of equal
\* score in corpus order, and the cut keeps a prefix: no candidate left out
\* ranks before a result.
C8_StableDescending ==
  IsResult =>
    /\ \A i, j \in 1..Len(Res.results) :
         i < j =>
           /\ Res.results[i].hybrid >= Res.results[j].hybrid
           /\ Res.results[i].score >= Res.results[j].score
           /\ Res.results[i].hybrid = Res.results[j].hybrid =>
                Res.results[i].idx < Res.results[j].idx
    /\ \A idx \in LeftOut :
         passes_filters(papers[idx], Res.filters) =>
           \A h \in {ScoreOf(idx, Res.query, Res.filters)} :
             h > 0 =>
               \A i \in 1..Len(Res.results) :
                 \/ Res.results[i].hybrid > h
                 \/ Res.results[i].hybrid = h /\ Res.results[i].idx < idx

C8_Witness ==
  /\ IsResult
  /\ Len(Res.results) >= 2
  /\ Res.results[1].hybrid = Res.results[2].hybrid
  /\ Cardinality(Qualifying(Res.query, Res.filters)) > Len(Res.results)

\* C9: search never returns more than top_k results when top_k >= 1, and
\* a call with top_k <= 0 is rejected or answered as for some positive
\* top_k, directly and through /search.
C9_TopKHandled ==
  IsResult =>
    /\ out.top_k >= 1 => Len(Res.results) <= out.top_k
    /\ out.top_k <= 0 =>
         \E k \in 1..(Len(papers) + 1) :
           Res.results = search(Res.query, k).results

\* C10 as stated: with topic tokens, a record passes (its year permitting)
\* if a token is a substring of its title, journal, author and keywords
\* taken together.
C10_TopicsInAllFields ==
  (IsResult /\ Len(Res.filters.topics) > 0) =>
    \A idx \in 1..Len(papers) :
      (YearPasses(papers[idx], Res.filters)
         /\ SomeTopicIn(AllFields(papers[idx]), Res.filters))
        => passes_filters(papers[idx], Res.filters)

\* C10 as amended: with topic tokens, a record passes (its year
\* permitting) exactly when a token is a substring of its lower-cased title
\* followed by its lower-cased keywords; journal and author are not
\* searched, and every result has a token in its title or keywords.
C10_TopicsInTitleAndKeywords ==
  (IsResult /\ Len(Res.filters.topics) > 0) =>
    /\ \A idx \in 1..Len(papers) :
         YearPasses(papers[idx], Res.filters) =>
           (passes_filters(papers[idx], Res.filters)
              <=> SomeTopicIn(TitleAndKeywords(papers[idx]), Res.filters))
    /\ \A i \in 1..Len(Res.results) :
         SomeTopicIn(TitleAndKeywords(Res.results[i].paper), Res.filters)

C10_Witness ==
  /\ IsResult
  /\ Len(Res.filters.topics) > 0
  /\ \E idx \in 1..Len(papers) :
       /\ YearPasses(papers[idx], Res.filters)
       /\ SomeTopicIn(Lower(papers[idx].journal), Res.filters)
       /\ ~SomeTopicIn(TitleAndKeywords(papers[idx]), Res.filters)
       /\ ~passes_filters(papers[idx], Res.filters)
       /\ \A i \in 1..Len(Res.results) : Res.results[i].idx # idx

\* the number of topic tokens of f found in the title and keywords of p
HitsIn(p, f) ==
  Cardinality({t \in 1..Len(f.topics) : Contains(TitleAndKeywords(p), Lower(f.topics[t]))})

\* the lexical similarity of the last query and the document of paper idx,
\* in thousandths
SimOf(idx) ==
  CosineSim(Terms(QueryAug(Res.query, Res.filters)), doc_matrix[idx], vocabulary)

\* C11: the hybrid score lies in [0,1]; it is 0.6 * similarity plus the
\* author term, the journal term and the topic bonus, where the author
\* term and the journal term are 0 when that filter is absent and the
\* bonus is min(0.05, 0.02 * hits), never above 0.05.
C11_ScoreInRange ==
  IsResult =>
    \A i \in 1..Len(Res.results) :
      \A sim \in {SimOf(Res.results[i].idx)}, hits \in {HitsIn(Res.results[i].paper, Res.filters)} :
        LET r == Res.results[i]
            f == Res.filters
            bonus == IF 20000 * hits > 50000 THEN 50000 ELSE 20000 * hits
            fuzzy == r.hybrid - 600 * sim - bonus
        IN /\ r.hybrid >= 0 /\ r.hybrid <= 1000000
           /\ sim >= 0 /\ sim <= 1000
           /\ fuzzy >= 0 /\ fuzzy <= 350000
           /\ (~Truthy(f.author) /\ ~Truthy(f.journal)) => fuzzy = 0
           /\ ~Truthy(f.author) => fuzzy <= 150000
           /\ ~Truthy(f.journal) => fuzzy <= 200000

C11_Witness ==
  /\ IsResult
  /\ ~Truthy(Res.filters.author)
  /\ ~Truthy(Res.filters.journal)
  /\ \E i \in 1..Len(Res.results) :
       /\ HitsIn(Res.results[i].paper, Res.filters) >= 3
       /\ Res.results[i].hybrid = 600 * SimOf(Res.results[i].idx) + 50000

\* C12: every result has a score above 0: a paper that passes the filters
\* with a hybrid score of 0 is never among the results.
C12_NoZeroScore ==
  IsResult =>
    /\ \A i \in 1..Len(Res.results) :
         /\ Res.results[i].hybrid > 0
         /\ ScoreOf(Res.results[i].idx, Res.query, Res.filters) > 0
    /\ \A idx \in 1..Len(papers) :
         (passes_filters(papers[idx], Res.filters)
            /\ ScoreOf(idx, Res.query, Res.filters) = 0) => idx \in LeftOut

C12_Witness ==
  /\ IsResult
  /\ out.top_k = DefaultTopK
  /\ Len(Res.results) > 0
  /\ \E idx \in LeftOut :
       /\ passes_filters(papers[idx], Res.filters)
       /\ ScoreOf(idx, Res.query, Res.filters) = 0

\* C13: no call is served by a partly built engine: whenever /search or
\* engine.search has answered, the corpus is loaded, every document is
\* built and doc_matrix is fitted with one row per paper.
C13_BuiltBeforeServed ==
  out.kind # "none" =>
    /\ phase = "ready"
    /\ Len(docs) = Len(papers)
    /\ Len(doc_matrix) = Len(papers)
    /\ vocabulary # {}

C13_Witness ==
  /\ out.kind = "result"
  /\ out.via = "http"
  /\ Len(papers) >= 2
  /\ Len(doc_matrix) = Len(papers)
  /\ Res.count > 0

\* C14: search only reads the engine: once the engine is built no step
\* changes papers, docs, the vocabulary or doc_matrix, a stored record never
\* gets the _score of its copy, and the answer held is the one the same
\* call gives on the engine as it is now, so equal calls give equal results
\* whatever was called in between.
C14_SearchReadsOnly ==
  /\ [](IsResult =>
          /\ Res = search(Res.query, out.top_k)
          /\ \A i \in 1..Len(Res.results) :
               papers[Res.results[i].idx] = Res.results[i].paper)
  /\ [][phase = "ready" =>
          /\ phase' = "ready"
          /\ UNCHANGED <<papers, docs, vocabulary, doc_matrix>>]_vars

C14_Witness ==
  /\ IsResult
  /\ Res.count > 0
  /\ Res.results[1].score > 0
  /\ DOMAIN papers[Res.results[1].idx] = DOMAIN Pool[1]
  /\ papers[Res.results[1].idx] = Res.results[1].paper

\* C15: row i of the index belongs to record i of the corpus: while the
\* engine is built the documents made so far are those of the first records,
\* in order, one each, also for a record with nothing in it; once it is
\* ready docs, doc_matrix and papers have the same length and row i holds
\* the terms of the document of papers[i]; and a returned paper's score is
\* the one computed from the similarity of the query to its own document.
C15_RowIsOwnDocument ==
  /\ Len(docs) <= Len(papers)
  /\ \A i \in 1..Len(docs) : docs[i] = DocText(papers[i])
  /\ phase = "ready" =>
       /\ Len(docs) = Len(papers)
       /\ Len(doc_matrix) = Len(papers)
       /\ \A i \in 1..Len(papers) : doc_matrix[i] = Terms(DocText(papers[i]))
  /\ IsResult =>
       \A qt \in {Terms(QueryAug(Res.query, Res.filters))} :
         \A i \in 1..Len(Res.results) :
           LET r == Res.results[i]
           IN /\ r.paper = papers[r.idx]
              /\ r.hybrid = hybrid_score(r.paper, Res.filters,
                              CosineSim(qt, Terms(DocText(r.paper)), vocabulary))

C15_Witness ==
  /\ IsResult
  /\ \E i \in 1..Len(Res.results) :
       /\ Res.results[i].idx > 1
       /\ Res.results[i].hybrid > 0
       /\ DocText(papers[1]) = ""
       /\ docs[1] = ""
       /\ doc_matrix[1] = <<>>

====
